---- MODULE Spec2Model ----
(***************************************************************************)
(* WHOIS command line client: who_is_CLI.py and its later revision         *)
(* whois_cli.py.  The model covers main, smart_whois,                      *)
(* find_whois_server_for_tld and whois_query_server of both files; the     *)
(* variable `variant` says which file is running.                          *)
(*                                                                         *)
(* Spec           main and smart_whois; one whois_query_server call is two *)
(*                steps (socket + settimeout, then connect..close).        *)
(* SpecTransport  one whois_query_server call, one step per socket         *)
(*                operation, with a clock and the received bytes.          *)
(***************************************************************************)
EXTENDS Integers, Sequences, FiniteSets, TLC

VARIABLES
    variant,        \* "who_is_CLI" or "whois_cli": the source file that runs
    HAVE_PYWHOIS,   \* whether `import whois` succeeded
    args,           \* argparse namespace: domains, batch, server, timeout, quiet, output, no_referral
    pc,             \* position of the single thread of control
    domains,        \* main: positional arguments + batch entries
    idx,            \* main: 1-based position of the for loop in domains
    out,            \* smart_whois: the result dict under construction
    server_to_use,  \* smart_whois: local
    tld,            \* smart_whois: local
    ref,            \* smart_whois: local (referral target)
    res,            \* main: the dict smart_whois returned
    nresults,       \* main: len(results)
    exit_code,      \* process exit status, -1 while running
    lookups,        \* domains passed to smart_whois so far, in call order
    net,            \* whois_query_server calls of the current lookup, in call order
    sock,           \* the socket of the active whois_query_server call: "none", "open"
    unclosed,       \* sockets created by a call that ended without close()
    nsockets,       \* sockets created during the current lookup
    t_pc,           \* SpecTransport: position inside whois_query_server
    t_timeout,      \* SpecTransport: the timeout argument
    t_sock,         \* SpecTransport: "none", "open", "closed"
    clock,          \* SpecTransport: ticks since the call started
    wait,           \* SpecTransport: ticks the current socket operation has blocked
    data_parts,     \* SpecTransport: chunks received so far
    t_result        \* SpecTransport: what the call returned or raised

vars == <<variant, HAVE_PYWHOIS, args, pc, domains, idx, out, server_to_use, tld,
          ref, res, nresults, exit_code, lookups, net, sock, unclosed, nsockets,
          t_pc, t_timeout, t_sock, clock, wait, data_parts, t_result>>

mainVars == <<variant, HAVE_PYWHOIS, args, pc, domains, idx, out, server_to_use, tld,
              ref, res, nresults, exit_code, lookups, net, sock, unclosed, nsockets>>

transportVars == <<t_pc, t_timeout, t_sock, clock, wait, data_parts, t_result>>

----------------------------------------------------------------------------
(* Values *)

None == "<None>"

\* Optional text: Python None or a str.  A text is a sequence of lines.
NoText == [some |-> FALSE, text |-> <<>>]
Text(t) == [some |-> TRUE, text |-> t]

Line(k, v) == [key |-> k, val |-> v]

IANA == "whois.iana.org"
VERISIGN == "whois.verisign-grs.com"
PANDI == "whois.pandi.or.id"
PYTHON_WHOIS == "python-whois"

\* str.lower() on the strings the model uses
Lower(s) ==
    CASE s = "COM" -> "com"
      [] s = "EXAMPLE" -> "example"
      [] s = "WHOIS SERVER:" -> "whois server:"
      [] s = "Whois Server:" -> "whois server:"
      [] s = "Whois:" -> "whois:"
      [] OTHER -> s

\* The first run of non-blank characters of a line
FirstToken(line) ==
    CASE line.key = "Whois Server:" -> "Whois"
      [] line.key = "WHOIS SERVER:" -> "WHOIS"
      [] line.key = "Domain Name:" -> "Domain"
      [] OTHER -> line.key

\* What \s*(\S+) captures right after the key of line i: the rest of the
\* line, or, the line being empty after the key, the first token of the
\* next line (\s matches the line break); None when the text ends there.
TokenAfter(text, i) ==
    IF text[i].val # "" THEN text[i].val
    ELSE IF i < Len(text) THEN FirstToken(text[i + 1])
    ELSE None

\* re.search(label + r"\s*(\S+)", text, re.IGNORECASE).group(1).strip(),
\* None when there is no match: the leftmost match wins.
Matches(label, text) ==
    {i \in 1..Len(text) : Lower(text[i].key) = label /\ TokenAfter(text, i) # None}

Search(label, text) ==
    IF Matches(label, text) = {} THEN None
    ELSE TokenAfter(text, CHOOSE i \in Matches(label, text) :
                              \A j \in Matches(label, text) : i <= j)

----------------------------------------------------------------------------
(* Inputs *)

\* Domain names, as the labels str.split(".") yields
ExampleCom == <<"example", "COM">>
ExampleNet == <<"example", "net">>
ExampleOrg == <<"example", "org">>
SchoolSchId == <<"school", "sch", "id">>
Localhost == <<"localhost">>
PaddedOrg == <<" example", "org ">>      \* " example.org ", blanks around it

DomainNames == {ExampleCom, ExampleNet, ExampleOrg, SchoolSchId, Localhost, PaddedOrg}

\* Replies a WHOIS server can give
ReplyPlain == <<Line("Domain Name:", "example")>>
ReplyWhois == <<Line("Whois:", "a.example")>>
ReplyReferB == <<Line("Domain Name:", "example"), Line("Whois Server:", "b.example")>>
ReplyReferA == <<Line("WHOIS SERVER:", "a.example"), Line("Whois Server:", "b.example")>>
ReplyReferIana == <<Line("Whois Server:", IANA)>>
ReplyDangling == <<Line("Whois Server:", ""), Line("Domain Name:", "example")>>

Replies == {ReplyPlain, ReplyWhois, ReplyReferB, ReplyReferA, ReplyReferIana, ReplyDangling}

\* str(exc) of what connect, sendall and recv raise
TransportErrors == {"timed out", "[Errno 111] Connection refused",
                    "[Errno 104] Connection reset by peer"}


\* argparse type=float accepts negative numbers; these are the values of -t
\* the model runs with (2 stands for a usable timeout such as the default).
Timeouts == {-1, 2}

\* -s: not given, given as the empty string, given as a host name
ServerArgs == {None, "", "a.example"}

\* Lines of a batch file
Comment == [kind |-> "comment", name |-> <<>>]
Blank == [kind |-> "blank", name |-> <<>>]
Entry(d) == [kind |-> "entry", name |-> d]

\* -b: not given, a file that cannot be opened, a readable file
NoBatch == [given |-> FALSE, readable |-> FALSE, lines |-> <<>>]
Unreadable == [given |-> TRUE, readable |-> FALSE, lines |-> <<>>]
BatchFile(ls) == [given |-> TRUE, readable |-> TRUE, lines |-> ls]

BatchFiles == {NoBatch, Unreadable, BatchFile(<<Comment, Blank, Entry(ExampleOrg)>>)}

\* -q, -o, --no-referral
Modes == {[quiet |-> FALSE, output |-> "text", no_referral |-> FALSE],
          [quiet |-> TRUE, output |-> "text", no_referral |-> FALSE],
          [quiet |-> FALSE, output |-> "json", no_referral |-> TRUE]}

MaxPositional == 1

SeqsUpTo(S, n) == UNION {[1..k -> S] : k \in 0..n}

----------------------------------------------------------------------------
(* Pure parts of main and smart_whois *)

\* load_batch: the stripped lines that are not blank and do not start with "#"
RECURSIVE load_batch(_)
load_batch(ls) ==
    IF ls = <<>> THEN <<>>
    ELSE IF Head(ls).kind = "entry" THEN <<Head(ls).name>> \o load_batch(Tail(ls))
    ELSE load_batch(Tail(ls))

\* As AllDomains, with `domains = load_batch(...)` in place of `domains += ...`
AllDomainsBatchOnly(positional, batch) ==
    IF batch.given THEN load_batch(batch.lines) ELSE positional

\* domains = args.domains[:]; if args.batch: domains += load_batch(args.batch)
AllDomains(positional, batch) ==
    IF batch.given THEN positional \o load_batch(batch.lines) ELSE positional

\* str.lstrip() and str.rstrip() on the strings the model uses
LStrip(s) == IF s = " example" THEN "example" ELSE s
RStrip(s) == IF s = "org " THEN "org" ELSE s

\* domain.strip(): blanks go from the front of the first label and from the
\* end of the last one
Strip(d) ==
    [k \in 1..Len(d) |->
        IF Len(d) = 1 THEN LStrip(RStrip(d[k]))
        ELSE IF k = 1 THEN LStrip(d[k])
        ELSE IF k = Len(d) THEN RStrip(d[k])
        ELSE d[k]]

\* domain = domain.strip(); out = {"query": domain, "server_used": None, ...}
NewOut(domain) ==
    LET d == Strip(domain) IN
    [query |-> d, server_used |-> None, raw |-> NoText, error |-> None,
     parsed |-> FALSE, raw_follow |-> NoText, server_used_follow |-> None,
     notes |-> <<>>]

\* domain.lower().split(".")
Parts(d) == [k \in 1..Len(d) |-> Lower(d[k])]

\* domain.endswith(".sch.id"), on the domain as typed
EndsWithSchId(d) ==
    Len(d) >= 3 /\ d[Len(d) - 1] = "sch" /\ d[Len(d)] = "id"

\* As NoOverride, with `is None` in both files
NoOverrideIsNone(v, server) == server = None

\* `server is None` (who_is_CLI.py:93) or `not server_to_use` (whois_cli.py:81)
NoOverride(v, server) ==
    IF v = "who_is_CLI" THEN server = None ELSE server \in {None, ""}

\* As Fallback, without the table
FallbackIanaOnly(v, d, t) == IANA

\* The static table used when discovery gave no server
Fallback(v, d, t) ==
    IF v = "who_is_CLI"
    THEN (IF t \in {"com", "net"} THEN VERISIGN ELSE IANA)
    ELSE IF t \in {"com", "net"} THEN VERISIGN
    ELSE IF t = "id" \/ EndsWithSchId(d) THEN PANDI
    ELSE IANA

\* find_whois_server_for_tld's value from the reply, None when the query raised
Discovered(reply) == IF reply.some THEN Search("whois:", reply.text) ELSE None

\* srv or fallback
ChooseServer(v, d, t, srv) == IF srv # None THEN srv ELSE Fallback(v, d, t)

\* As Referral, without `ref != server_to_use`
ReferralNoLoopGuard(raw, server) == Search("whois server:", raw)

\* The referral smart_whois follows after a primary reply, None when it follows none
Referral(raw, server) ==
    LET r == Search("whois server:", raw) IN
    IF r # None /\ r # server THEN r ELSE None

\* str(d) of the dict python-whois returned
ParsedText == <<Line("{'domain_name':", "'example'}")>>

\* As ParsedResult, without out["parsed"] = d
ParsedResultNoDict(v, d) ==
    [NewOut(d) EXCEPT
        !.server_used = PYTHON_WHOIS,
        !.raw = IF v = "who_is_CLI" THEN Text(ParsedText) ELSE NoText]

\* The dict smart_whois returns when pywhois.whois(domain) succeeded:
\* who_is_CLI.py also stores str(d) as raw, whois_cli.py does not.
ParsedResult(v, d) ==
    [NewOut(d) EXCEPT
        !.server_used = PYTHON_WHOIS,
        !.raw = IF v = "who_is_CLI" THEN Text(ParsedText) ELSE NoText,
        !.parsed = TRUE]

\* The dict after pywhois.whois(domain) raised
ParserFailed(d) == [NewOut(d) EXCEPT !.error = "python-whois failed"]


----------------------------------------------------------------------------
(* main and smart_whois *)

QueryKinds == {"discovery", "primary", "referral"}

\* The (query, server) of the whois_query_server call smart_whois makes at pc
CallOf(kind) ==
    CASE kind = "discovery" -> [kind |-> kind, query |-> <<tld>>, server |-> IANA]
      [] kind = "primary" -> [kind |-> kind, query |-> out.query, server |-> server_to_use]
      [] kind = "referral" -> [kind |-> kind, query |-> out.query, server |-> ref]

InitMain ==
    /\ variant \in {"who_is_CLI", "whois_cli"}
    /\ HAVE_PYWHOIS \in BOOLEAN
    /\ \E ds \in SeqsUpTo(DomainNames, MaxPositional), b \in BatchFiles,
          s \in ServerArgs, t \in Timeouts, m \in Modes :
          args = [domains |-> ds, batch |-> b, server |-> s, timeout |-> t,
                  quiet |-> m.quiet, output |-> m.output, no_referral |-> m.no_referral]
    /\ pc = "start"
    /\ domains = <<>>
    /\ idx = 1
    /\ out = NewOut(<<>>)
    /\ server_to_use = None
    /\ tld = None
    /\ ref = None
    /\ res = NewOut(<<>>)
    /\ nresults = 0
    /\ exit_code = -1
    /\ lookups = <<>>
    /\ net = <<>>
    /\ sock = "none"
    /\ unclosed = 0
    /\ nsockets = 0

InitTransportIdle ==
    /\ t_pc = "idle"
    /\ t_timeout = 0
    /\ t_sock = "none"
    /\ clock = 0
    /\ wait = 0
    /\ data_parts = <<>>
    /\ t_result = [kind |-> "none"]

Init == InitMain /\ InitTransportIdle

\* main, up to the for loop: domains = args.domains[:] + load_batch(args.batch);
\* sys.exit(2) when the batch file cannot be read, sys.exit(1) when there is
\* nothing to look up.
MainStart ==
    /\ pc = "start"
    /\ IF args.batch.given /\ ~args.batch.readable
       THEN /\ pc' = "exit"
            /\ exit_code' = 2
            /\ UNCHANGED domains
       ELSE LET ds == AllDomains(args.domains, args.batch) IN
            /\ domains' = ds
            /\ IF ds = <<>>
               THEN pc' = "exit" /\ exit_code' = 1
               ELSE pc' = "loop" /\ UNCHANGED exit_code
    /\ UNCHANGED <<variant, HAVE_PYWHOIS, args, idx, out, server_to_use, tld, ref,
                   res, nresults, lookups, net, sock, unclosed, nsockets>>
    /\ UNCHANGED transportVars

\* smart_whois from `server_to_use = server` to the first whois_query_server
\* call, with `o` the dict so far
Resolve(o) ==
    IF ~NoOverride(variant, args.server)
    THEN /\ server_to_use' = args.server
         /\ out' = [o EXCEPT !.server_used = args.server]
         /\ tld' = None
         /\ pc' = "primary"
    ELSE IF Len(Parts(o.query)) < 2
    THEN /\ server_to_use' = IANA
         /\ out' = [o EXCEPT !.server_used = IANA]
         /\ tld' = None
         /\ pc' = "primary"
    ELSE /\ server_to_use' = None
         /\ out' = o
         /\ tld' = Parts(o.query)[Len(o.query)]
         /\ pc' = "discovery"

\* for d in domains: smart_whois(d, ...) is entered.  The locals of the
\* previous call and main's previous `res` are dead here and are reset.
EnterFrame ==
    /\ pc = "loop"
    /\ idx <= Len(domains)
    /\ lookups' = Append(lookups, domains[idx])
    /\ net' = <<>>
    /\ nsockets' = 0
    /\ ref' = None
    /\ res' = NewOut(<<>>)
    /\ UNCHANGED <<variant, HAVE_PYWHOIS, args, domains, idx, nresults, exit_code,
                   sock, unclosed>>
    /\ UNCHANGED transportVars

\* python-whois is not tried: not installed, or the caller named a server
Enter ==
    /\ EnterFrame
    /\ ~(HAVE_PYWHOIS /\ args.server = None)
    /\ Resolve(NewOut(domains[idx]))

\* pywhois.whois(domain) returns: the parsed dict is the result
EnterParsed ==
    /\ EnterFrame
    /\ HAVE_PYWHOIS /\ args.server = None
    /\ out' = ParsedResult(variant, domains[idx])
    /\ pc' = "return"
    /\ UNCHANGED <<server_to_use, tld>>

\* pywhois.whois(domain) raises: error is set and the socket path is taken
EnterParserFailed ==
    /\ EnterFrame
    /\ HAVE_PYWHOIS /\ args.server = None
    /\ Resolve(ParserFailed(domains[idx]))

\* out["raw"] = raw
OnPrimaryReply(o, reply) == [o EXCEPT !.raw = reply]

\* As OnPrimaryError, with the exception swallowed
OnPrimaryErrorSilent(o, msg) == o

\* except Exception as exc: out["error"] = str(exc)
OnPrimaryError(o, msg) == [o EXCEPT !.error = msg]

\* out["raw_follow"] = raw2; out["server_used_follow"] = ref
OnReferralReply(o, reply, r) == [o EXCEPT !.raw_follow = reply, !.server_used_follow = r]

\* out.setdefault("notes", []).append(f"follow referral failed: {e}")
OnReferralError(o, msg) ==
    [o EXCEPT !.notes = Append(@, "follow referral failed: " \o msg)]

\* What smart_whois does with the reply of a call (reply.some) or with the
\* exception it raised (msg)
AfterQuery(kind, reply, msg) ==
    CASE kind = "discovery" ->
            LET s == ChooseServer(variant, out.query, tld, Discovered(reply)) IN
            /\ server_to_use' = s
            /\ out' = [out EXCEPT !.server_used = s]
            /\ pc' = "primary"
            /\ UNCHANGED ref
      [] kind = "primary" ->
            IF reply.some
            THEN /\ out' = OnPrimaryReply(out, reply)
                 /\ ref' = Referral(reply.text, server_to_use)
                 /\ pc' = IF Referral(reply.text, server_to_use) # None
                          THEN "referral" ELSE "return"
                 /\ UNCHANGED server_to_use
            ELSE /\ out' = OnPrimaryError(out, msg)
                 /\ pc' = "return"
                 /\ UNCHANGED <<server_to_use, ref>>
      [] kind = "referral" ->
            /\ out' = IF reply.some
                      THEN OnReferralReply(out, reply, ref)
                      ELSE OnReferralError(out, msg)
            /\ pc' = "return"
            /\ UNCHANGED <<server_to_use, ref>>

QueryFrame ==
    /\ UNCHANGED <<variant, HAVE_PYWHOIS, args, domains, idx, res, nresults,
                   exit_code, lookups, tld>>
    /\ UNCHANGED transportVars

\* whois_query_server is called: socket.socket(), then s.settimeout(timeout)
\* with a timeout settimeout accepts; the call is now inside its try block.
QueryBegin(kind) ==
    /\ pc = kind
    /\ args.timeout >= 0
    /\ net' = Append(net, CallOf(kind))
    /\ nsockets' = nsockets + 1
    /\ sock' = "open"
    /\ pc' = kind \o "_io"
    /\ UNCHANGED <<out, server_to_use, ref, unclosed>>
    /\ QueryFrame

\* whois_query_server is called and s.settimeout(timeout) raises ValueError:
\* this is before the try block, so the finally clause does not run and the
\* call ends with its socket not closed.
QueryBadTimeout(kind) ==
    /\ pc = kind
    /\ args.timeout < 0
    /\ net' = Append(net, CallOf(kind))
    /\ nsockets' = nsockets + 1
    /\ unclosed' = unclosed + 1
    /\ AfterQuery(kind, NoText, "Timeout value out of range")
    /\ UNCHANGED sock
    /\ QueryFrame

\* connect, sendall and the recv loop end with the peer closing: the decoded
\* reply r is returned, and the finally clause closes the socket.
QueryReturnsWith(kind, r) ==
    /\ pc = kind \o "_io"
    /\ AfterQuery(kind, Text(r), None)
    /\ sock' = "none"
    /\ UNCHANGED <<net, nsockets, unclosed>>
    /\ QueryFrame

QueryReturns(kind) == \E r \in Replies : QueryReturnsWith(kind, r)

\* connect, sendall or recv raises e (also after some chunks were received):
\* the finally clause closes the socket and the exception leaves the call.
QueryRaisesWith(kind, e) ==
    /\ pc = kind \o "_io"
    /\ AfterQuery(kind, NoText, e)
    /\ sock' = "none"
    /\ UNCHANGED <<net, nsockets, unclosed>>
    /\ QueryFrame

QueryRaises(kind) == \E e \in TransportErrors : QueryRaisesWith(kind, e)

\* The interpreter reclaims a socket object nobody closed, at a time of its own
Collect ==
    /\ unclosed > 0
    /\ unclosed' = unclosed - 1
    /\ UNCHANGED <<variant, HAVE_PYWHOIS, args, pc, domains, idx, out, server_to_use,
                   tld, ref, res, nresults, exit_code, lookups, net, sock, nsockets>>
    /\ UNCHANGED transportVars

\* res.pop("raw_follow", None); res.pop("server_used_follow", None)
PopFollow(r) == [r EXCEPT !.raw_follow = NoText, !.server_used_follow = None]

\* smart_whois returns `out`; main finishes the loop body: in who_is_CLI.py
\* quiet text mode prints raw and continues, otherwise --no-referral drops the
\* referral fields and the result is appended and printed; whois_cli.py
\* always appends and prints.
Return ==
    /\ pc = "return"
    /\ IF variant = "who_is_CLI" /\ args.quiet /\ args.output = "text"
       THEN res' = out /\ UNCHANGED nresults
       ELSE /\ res' = IF variant = "who_is_CLI" /\ args.no_referral
                      THEN PopFollow(out) ELSE out
            /\ nresults' = nresults + 1
    /\ out' = NewOut(<<>>)
    /\ server_to_use' = None
    /\ tld' = None
    /\ ref' = None
    /\ idx' = idx + 1
    /\ pc' = "loop"
    /\ UNCHANGED <<variant, HAVE_PYWHOIS, args, domains, exit_code, lookups, net,
                   sock, unclosed, nsockets>>
    /\ UNCHANGED transportVars

\* The loop is over: json output is printed and main returns
MainEnd ==
    /\ pc = "loop"
    /\ idx > Len(domains)
    /\ pc' = "exit"
    /\ exit_code' = 0
    /\ UNCHANGED <<variant, HAVE_PYWHOIS, args, domains, idx, out, server_to_use, tld,
                   ref, res, nresults, lookups, net, sock, unclosed, nsockets>>
    /\ UNCHANGED transportVars

Next ==
    \/ MainStart
    \/ Enter
    \/ EnterParsed
    \/ EnterParserFailed
    \/ \E kind \in QueryKinds : QueryBegin(kind)
    \/ \E kind \in QueryKinds : QueryBadTimeout(kind)
    \/ \E kind \in QueryKinds : QueryReturns(kind)
    \/ \E kind \in QueryKinds : QueryRaises(kind)
    \/ Collect
    \/ Return
    \/ MainEnd

Spec == Init /\ [][Next]_vars


----------------------------------------------------------------------------
(* bytes.decode('utf-8', errors=...), as CPython decodes *)

BUFFER_SIZE == 4096

\* Bytes a peer sends in the model: "A", the lead byte of a two-byte sequence,
\* a continuation byte, the lead byte of a three-byte sequence, and a byte
\* that occurs in no UTF-8 sequence
Bytes == {65, 195, 169, 226, 255}

MaxBytes == 3
MaxChunk == 2

IsCont(b) == b \in 128..191

\* Whether b2 may follow the lead byte b1: this excludes overlong forms,
\* surrogates and code points above U+10FFFF
SecondOK(b1, b2) ==
    CASE b1 = 224 -> b2 \in 160..191
      [] b1 = 237 -> b2 \in 128..159
      [] b1 = 240 -> b2 \in 144..191
      [] b1 = 244 -> b2 \in 128..143
      [] OTHER -> IsCont(b2)

Has(bs, i) == i <= Len(bs)

\* The sequence that starts at bs[i]: its code point and length, or cp = -1
\* and the length of the invalid run that one error covers
DecodeAt(bs, i) ==
    LET b == bs[i] IN
    IF b < 128 THEN [cp |-> b, n |-> 1]
    ELSE IF b \in 194..223
    THEN IF Has(bs, i + 1) /\ IsCont(bs[i + 1])
         THEN [cp |-> (b - 192) * 64 + (bs[i + 1] - 128), n |-> 2]
         ELSE [cp |-> -1, n |-> 1]
    ELSE IF b \in 224..239
    THEN IF ~(Has(bs, i + 1) /\ SecondOK(b, bs[i + 1])) THEN [cp |-> -1, n |-> 1]
         ELSE IF ~(Has(bs, i + 2) /\ IsCont(bs[i + 2])) THEN [cp |-> -1, n |-> 2]
         ELSE [cp |-> (b - 224) * 4096 + (bs[i + 1] - 128) * 64 + (bs[i + 2] - 128),
               n |-> 3]
    ELSE IF b \in 240..244
    THEN IF ~(Has(bs, i + 1) /\ SecondOK(b, bs[i + 1])) THEN [cp |-> -1, n |-> 1]
         ELSE IF ~(Has(bs, i + 2) /\ IsCont(bs[i + 2])) THEN [cp |-> -1, n |-> 2]
         ELSE IF ~(Has(bs, i + 3) /\ IsCont(bs[i + 3])) THEN [cp |-> -1, n |-> 3]
         ELSE [cp |-> (b - 240) * 262144 + (bs[i + 1] - 128) * 4096
                         + (bs[i + 2] - 128) * 64 + (bs[i + 3] - 128),
               n |-> 4]
    ELSE [cp |-> -1, n |-> 1]

\* bs[i..].decode('utf-8', errors): the text (code points), and whether the
\* decoder raised UnicodeDecodeError
RECURSIVE DecodeFrom(_, _, _)
DecodeFrom(bs, i, errors) ==
    IF i > Len(bs) THEN [raised |-> FALSE, text |-> <<>>]
    ELSE LET d == DecodeAt(bs, i)
             rest == DecodeFrom(bs, i + d.n, errors)
         IN
         IF d.cp >= 0 THEN [raised |-> rest.raised, text |-> <<d.cp>> \o rest.text]
         ELSE IF errors = "ignore" THEN rest
         ELSE IF errors = "replace"
         THEN [raised |-> rest.raised, text |-> <<65533>> \o rest.text]   \* U+FFFD
         ELSE [raised |-> TRUE, text |-> <<>>]

utf8_decode(bs, errors) == DecodeFrom(bs, 1, errors)

\* b"".join(data_parts)
RECURSIVE Join(_)
Join(parts) == IF parts = <<>> THEN <<>> ELSE Head(parts) \o Join(Tail(parts))

\* As DecodeErrors, with errors='replace'
DecodeErrorsReplace == "replace"

\* As DecodeErrors, with the default errors='strict'
DecodeErrorsStrict == "strict"

\* The errors argument whois_query_server passes to decode
DecodeErrors == "ignore"

----------------------------------------------------------------------------
(* whois_query_server, one step per socket operation *)

\* Values of the timeout argument, in clock ticks; 0 makes the socket
\* non-blocking and a negative value is refused by settimeout
TransportTimeouts == {-1, 0, 1, 2}

MaxClock == 4

Chunks == {c \in SeqsUpTo(Bytes, MaxChunk) : c # <<>> /\ Len(c) <= BUFFER_SIZE}

Blocking == {"connect", "sendall", "recv"}

InitMainIdle ==
    /\ variant = "who_is_CLI"
    /\ HAVE_PYWHOIS = FALSE
    /\ args = [domains |-> <<>>, batch |-> NoBatch, server |-> None, timeout |-> 0,
               quiet |-> FALSE, output |-> "text", no_referral |-> FALSE]
    /\ pc = "transport"
    /\ domains = <<>>
    /\ idx = 1
    /\ out = NewOut(<<>>)
    /\ server_to_use = None
    /\ tld = None
    /\ ref = None
    /\ res = NewOut(<<>>)
    /\ nresults = 0
    /\ exit_code = -1
    /\ lookups = <<>>
    /\ net = <<>>
    /\ sock = "none"
    /\ unclosed = 0
    /\ nsockets = 0

InitTransport ==
    /\ InitMainIdle
    /\ t_pc = "socket"
    /\ t_timeout \in TransportTimeouts
    /\ t_sock = "none"
    /\ clock = 0
    /\ wait = 0
    /\ data_parts = <<>>
    /\ t_result = [kind |-> "none"]

Raised(e) == [kind |-> "raised", error |-> e]
Returned(t) == [kind |-> "returned", text |-> t]

\* s = socket.socket(socket.AF_INET, socket.SOCK_STREAM)
Socket ==
    /\ t_pc = "socket"
    /\ t_sock' = "open"
    /\ t_pc' = "settimeout"
    /\ UNCHANGED <<t_timeout, clock, wait, data_parts, t_result>>
    /\ UNCHANGED mainVars

\* s.settimeout(timeout), before the try block: a negative timeout raises
\* ValueError and the call ends there, with the socket as it is
SetTimeout ==
    /\ t_pc = "settimeout"
    /\ IF t_timeout < 0
       THEN /\ t_result' = Raised("Timeout value out of range")
            /\ t_pc' = "done"
       ELSE /\ t_pc' = "connect"
            /\ UNCHANGED t_result
    /\ UNCHANGED <<t_timeout, t_sock, clock, wait, data_parts>>
    /\ UNCHANGED mainVars

\* Time passes while a socket operation blocks, up to the socket's timeout
Tick ==
    /\ t_pc \in Blocking
    /\ wait < t_timeout
    /\ clock < MaxClock
    /\ wait' = wait + 1
    /\ clock' = clock + 1
    /\ UNCHANGED <<t_pc, t_timeout, t_sock, data_parts, t_result>>
    /\ UNCHANGED mainVars

\* The blocked operation has waited for the socket's timeout: socket.timeout
TimedOut ==
    /\ t_pc \in Blocking
    /\ t_timeout > 0
    /\ wait = t_timeout
    /\ t_result' = Raised("timed out")
    /\ t_pc' = "finally"
    /\ UNCHANGED <<t_timeout, t_sock, clock, wait, data_parts>>
    /\ UNCHANGED mainVars

\* A blocking socket's operation may complete before its timeout
CanComplete == t_timeout > 0 /\ wait < t_timeout

\* s.connect((server, port)) returns
Connect ==
    /\ t_pc = "connect"
    /\ CanComplete
    /\ t_pc' = "sendall"
    /\ wait' = 0
    /\ UNCHANGED <<t_timeout, t_sock, clock, data_parts, t_result>>
    /\ UNCHANGED mainVars

\* s.connect raises: refused, or, the socket being non-blocking (timeout 0),
\* BlockingIOError at once
ConnectFails ==
    /\ t_pc = "connect"
    /\ t_result' = IF t_timeout = 0
                   THEN Raised("[Errno 115] Operation now in progress")
                   ELSE Raised("[Errno 111] Connection refused")
    /\ t_pc' = "finally"
    /\ UNCHANGED <<t_timeout, t_sock, clock, wait, data_parts>>
    /\ UNCHANGED mainVars

\* s.sendall((query + "\r\n").encode(...)) returns; data_parts = []
Send ==
    /\ t_pc = "sendall"
    /\ CanComplete
    /\ t_pc' = "recv"
    /\ wait' = 0
    /\ data_parts' = <<>>
    /\ UNCHANGED <<t_timeout, t_sock, clock, t_result>>
    /\ UNCHANGED mainVars

\* s.sendall raises
SendFails ==
    /\ t_pc = "sendall"
    /\ CanComplete
    /\ t_result' = Raised("[Errno 32] Broken pipe")
    /\ t_pc' = "finally"
    /\ UNCHANGED <<t_timeout, t_sock, clock, wait, data_parts>>
    /\ UNCHANGED mainVars

\* chunk = s.recv(BUFFER_SIZE) returns bytes: data_parts.append(chunk), and the
\* next recv starts
RecvChunk ==
    /\ t_pc = "recv"
    /\ CanComplete
    /\ \E chunk \in Chunks :
          /\ Len(Join(data_parts)) + Len(chunk) <= MaxBytes
          /\ data_parts' = Append(data_parts, chunk)
    /\ wait' = 0
    /\ UNCHANGED <<t_pc, t_timeout, t_sock, clock, t_result>>
    /\ UNCHANGED mainVars

\* s.recv returns b"" (the peer closed): break, then
\* return b"".join(data_parts).decode('utf-8', errors='ignore')
RecvClose ==
    /\ t_pc = "recv"
    /\ CanComplete
    /\ LET d == utf8_decode(Join(data_parts), DecodeErrors) IN
       t_result' = IF d.raised THEN Raised("UnicodeDecodeError") ELSE Returned(d.text)
    /\ t_pc' = "finally"
    /\ UNCHANGED <<t_timeout, t_sock, clock, wait, data_parts>>
    /\ UNCHANGED mainVars

\* s.recv raises, possibly after chunks were received
RecvFails ==
    /\ t_pc = "recv"
    /\ CanComplete
    /\ t_result' = Raised("[Errno 104] Connection reset by peer")
    /\ t_pc' = "finally"
    /\ UNCHANGED <<t_timeout, t_sock, clock, wait, data_parts>>
    /\ UNCHANGED mainVars

\* finally: s.close(), and the call returns or raises what is pending
Finally ==
    /\ t_pc = "finally"
    /\ t_sock' = "closed"
    /\ t_pc' = "done"
    /\ UNCHANGED <<t_timeout, clock, wait, data_parts, t_result>>
    /\ UNCHANGED mainVars

NextTransport ==
    \/ Socket
    \/ SetTimeout
    \/ Tick
    \/ TimedOut
    \/ Connect
    \/ ConnectFails
    \/ Send
    \/ SendFails
    \/ RecvChunk
    \/ RecvClose
    \/ RecvFails
    \/ Finally

SpecTransport == InitTransport /\ [][NextTransport]_vars

----------------------------------------------------------------------------
(* Claims about main and smart_whois, checked under Spec *)

\* The positions in net of the calls of one kind
Calls(kind) == {i \in 1..Len(net) : net[i].kind = kind}

\* Control is inside smart_whois
InLookup == pc \notin {"start", "loop", "exit"}

\* The lines of a reply that read "Whois Server:", in any letter case
RefKeyLines(text) == {i \in 1..Len(text) : Lower(text[i].key) = "whois server:"}

FirstRefLine(text) ==
    CHOOSE i \in RefKeyLines(text) : \A j \in RefKeyLines(text) : i <= j

PrimaryFails ==
    \/ \E e \in TransportErrors : QueryRaisesWith("primary", e)
    \/ QueryBadTimeout("primary")

ReferralFails ==
    \/ \E e \in TransportErrors : QueryRaisesWith("referral", e)
    \/ QueryBadTimeout("referral")

\* C2: when the primary query fails, smart_whois goes straight to its return
\* with error set and raw absent, without raw_follow or server_used_follow,
\* and no referral query is issued before it returns.
C2_PrimaryFailure ==
    [][/\ PrimaryFails =>
            /\ pc' = "return"
            /\ out'.error # None
            /\ ~out'.raw.some
            /\ ~out'.raw_follow.some
            /\ out'.server_used_follow = None
            /\ Calls("referral")' = {}
       /\ (pc = "return" /\ ~out.raw.some /\ pc' # "return") =>
            /\ pc' = "loop"
            /\ net' = net
            /\ res'.error = out.error
            /\ ~res'.raw.some]_vars

\* C2 witness: the primary query timed out and smart_whois is returning
C2_Witness ==
    /\ pc = "return"
    /\ net # <<>>
    /\ net[Len(net)].kind = "primary"
    /\ out.error = "timed out"
    /\ ~out.raw.some

\* C3: when the primary query succeeded and the referral query fails, the
\* result keeps the primary reply in raw, has error unset, has no raw_follow
\* and no server_used_follow, and gets one more entry in notes.
C3_ReferralFailure ==
    [][ReferralFails =>
            /\ pc' = "return"
            /\ out'.raw = out.raw
            /\ out'.raw.some
            /\ out'.error = None
            /\ ~out'.raw_follow.some
            /\ out'.server_used_follow = None
            /\ Len(out'.notes) = Len(out.notes) + 1]_vars

\* The discovery, then the primary query, are the first two calls of the lookup
DiscoveryFirst(d) ==
    /\ Calls("discovery") = {1}
    /\ net[1] = [kind |-> "discovery", query |-> <<Lower(d[Len(d)])>>, server |-> IANA]
    /\ Calls("primary") = {2}

NoDiscovery(server) ==
    /\ Calls("discovery") = {}
    /\ Calls("primary") = {1}
    /\ net[1].server = server
    /\ out.server_used = server

\* C4 as stated: a lookup that queries a server has first completed a discovery
\* query to whois.iana.org for the last label when no -s was given and the
\* domain has two labels or more; with -s given there is no discovery and the
\* override is the server used, and with fewer than two labels there is none
\* and whois.iana.org is the server used.
C4_Original ==
    (InLookup /\ Calls("primary") # {}) =>
        IF args.server # None THEN NoDiscovery(args.server)
        ELSE IF Len(out.query) < 2 THEN NoDiscovery(IANA)
        ELSE DiscoveryFirst(out.query)

\* Whether -s counts as an override: whois_cli.py tests its truth, so an empty
\* string does not count there
OverrideSupplied ==
    IF variant = "whois_cli" THEN args.server \notin {None, ""} ELSE args.server # None

\* C4 amended: as C4, where in whois_cli.py an empty -s counts as no override
\* (discovery is issued), and the discovery query is the lower-cased last label.
C4_Discovery ==
    (InLookup /\ Calls("primary") # {}) =>
        IF OverrideSupplied THEN NoDiscovery(args.server)
        ELSE IF Len(out.query) < 2 THEN NoDiscovery(IANA)
        ELSE DiscoveryFirst(out.query)

\* C4 witness: whois_cli.py, run with -s "", has made the discovery query for
\* "com" and then the primary query
C4_Witness ==
    /\ pc = "return"
    /\ variant = "whois_cli"
    /\ args.server = ""
    /\ Len(net) >= 2
    /\ net[1] = [kind |-> "discovery", query |-> <<"com">>, server |-> IANA]
    /\ net[2].kind = "primary"

\* A reply without a "whois:" line
NoWhoisLine(r) == \A i \in 1..Len(r) : Lower(r[i].key) # "whois:"

DiscoveryYieldsNothing ==
    \/ \E e \in TransportErrors : QueryRaisesWith("discovery", e)
    \/ QueryBadTimeout("discovery")
    \/ \E r \in Replies : NoWhoisLine(r) /\ QueryReturnsWith("discovery", r)

LastLabel == Lower(out.query[Len(out.query)])

\* C5 as stated: when discovery yields nothing, the primary query goes to
\* whois.verisign-grs.com for com and net and to whois.iana.org for every
\* other top-level domain, and the discovery failure is not the lookup's error.
C5_Original ==
    [][DiscoveryYieldsNothing =>
            /\ pc' = "primary"
            /\ server_to_use' = IF LastLabel \in {"com", "net"} THEN VERISIGN ELSE IANA
            /\ out'.server_used = server_to_use'
            /\ out'.error = out.error]_vars

\* C5 amended: as C5, except that whois_cli.py uses whois.pandi.or.id when the
\* top-level domain is id.
C5_Fallback ==
    [][DiscoveryYieldsNothing =>
            /\ pc' = "primary"
            /\ server_to_use' = IF LastLabel \in {"com", "net"} THEN VERISIGN
                                ELSE IF variant = "whois_cli" /\ LastLabel = "id" THEN PANDI
                                ELSE IANA
            /\ out'.server_used = server_to_use'
            /\ out'.error = out.error]_vars

\* C5 witness: discovery for example.COM gave nothing and the primary query is
\* about to go to whois.verisign-grs.com
C5_Witness ==
    /\ pc = "primary"
    /\ out.query = ExampleCom
    /\ Calls("discovery") = {1}
    /\ server_to_use = VERISIGN
    /\ out.error = None

\* The batch file's entries, in file order
Entries(ls) ==
    LET sel == SelectSeq(ls, LAMBDA l : l.kind = "entry") IN
    [k \in 1..Len(sel) |-> sel[k].name]

\* The list main is given: positional arguments, then batch entries
Expected == args.domains \o Entries(args.batch.lines)

Progress ==
    \/ MainStart \/ Enter \/ EnterParsed \/ EnterParserFailed
    \/ \E kind \in QueryKinds :
          QueryBegin(kind) \/ QueryBadTimeout(kind) \/ QueryReturns(kind) \/ QueryRaises(kind)
    \/ Return \/ MainEnd

\* C6: the domains are looked up one at a time in input order, each lookup over
\* (no query active) before the next starts, the run can always go on until
\* main ends, and main given a non-empty list ends with every domain looked up
\* once and exit code 0.
C6_Batch ==
    /\ Len(lookups) <= Len(Expected)
    /\ lookups = SubSeq(Expected, 1, Len(lookups))
    /\ InLookup => Len(lookups) = idx
    /\ pc = "loop" => Len(lookups) = idx - 1 /\ sock = "none"
    /\ sock = "open" => InLookup
    /\ pc # "exit" => ENABLED Progress
    /\ (pc = "exit" /\ Expected # <<>> /\ (args.batch.given => args.batch.readable)) =>
          /\ exit_code = 0
          /\ lookups = Expected

\* C6 witness: main ended with exit code 0 after two lookups, positional then
\* batch entry, both of which failed (settimeout refused the timeout)
C6_Witness ==
    /\ pc = "exit"
    /\ exit_code = 0
    /\ lookups = <<ExampleCom, ExampleOrg>>
    /\ args.timeout < 0
    /\ ~HAVE_PYWHOIS
    /\ res.error # None

\* C8 as stated: a returned result never has raw and error both absent, and
\* after a failed primary query raw is absent and error is set.
C8_Original ==
    pc = "return" =>
        /\ out.raw.some \/ out.error # None
        /\ (Calls("primary") # {} /\ ~out.raw.some) => out.error # None

\* C8 amended: a returned result has raw, error or parsed; raw and error are
\* both absent only in whois_cli.py after the structured parser succeeded; and
\* after a failed primary query raw is absent and error is set.
C8_RawOrError ==
    pc = "return" =>
        /\ out.raw.some \/ out.error # None \/ out.parsed
        /\ (~out.raw.some /\ out.error = None) =>
              variant = "whois_cli" /\ out.server_used = PYTHON_WHOIS /\ net = <<>>
        /\ (Calls("primary") # {} /\ ~out.raw.some) => out.error # None

\* C8 witness: whois_cli.py returns the parser's result, without raw or error
C8_Witness ==
    /\ pc = "return"
    /\ variant = "whois_cli"
    /\ out.parsed
    /\ ~out.raw.some
    /\ out.error = None

\* C10: every whois_query_server call creates one socket, and whenever no call
\* is active every socket created so far has been closed.
C10_SocketsClosed ==
    /\ nsockets = Len(net)
    /\ sock = "none" => unclosed = 0


----------------------------------------------------------------------------
(* Claims about whois_query_server, checked under SpecTransport *)

\* str.encode('utf-8') of a text of code points
RECURSIVE Encode(_)
Encode(t) ==
    IF t = <<>> THEN <<>>
    ELSE LET c == Head(t) IN
         (IF c < 128 THEN <<c>>
          ELSE IF c < 2048 THEN <<192 + (c \div 64), 128 + (c % 64)>>
          ELSE IF c < 65536
          THEN <<224 + (c \div 4096), 128 + ((c \div 64) % 64), 128 + (c % 64)>>
          ELSE <<240 + (c \div 262144), 128 + ((c \div 4096) % 64),
                 128 + ((c \div 64) % 64), 128 + (c % 64)>>)
         \o Encode(Tail(t))

\* bs is well-formed UTF-8
ValidUtf8(bs) == ~utf8_decode(bs, "strict").raised

\* a is b with some elements left out
RECURSIVE IsSubseq(_, _)
IsSubseq(a, b) ==
    IF a = <<>> THEN TRUE
    ELSE IF b = <<>> THEN FALSE
    ELSE IF Head(a) = Head(b) THEN IsSubseq(Tail(a), Tail(b))
    ELSE IsSubseq(a, Tail(b))

Received == Join(data_parts)

Elems(t) == {t[k] : k \in 1..Len(t)}

\* The replacement character U+FFFD occurs in the text
HasReplacement(t) == 65533 \in Elems(t)

C9_WholeCallTimeout ==
    (t_pc = "done" /\ t_timeout > 0) => clock <= t_timeout

====
